---- MODULE Spec2Model ----
(***************************************************************************)
(* The PCD point-cloud loader of src/src/loaders/PCDLoader.js: the header  *)
(* parser parseHeader and the synchronous PCDLoader.parse with its binary  *)
(* record loop and the floor / no-floor split.                             *)
(*                                                                         *)
(* A file is a header text and a payload.  The header text is a sequence   *)
(* of lines, a line a sequence of tokens separated by single spaces.  The  *)
(* binary payload is a sequence of bytes; 32-bit floats are decoded from   *)
(* their four bytes.                                                       *)
(*                                                                         *)
(* The worker revision of the loader, at the end of                        *)
(* src/src/extras/TransformGizmos.js, is modelled further down: load, the  *)
(* messages between parse and its Worker, and the promise that an interval *)
(* resolves.                                                               *)
(***************************************************************************)
EXTENDS Integers, Sequences, FiniteSets, TLC

VARIABLES
    data,        \* the file handed to parse: [text, payload, body], and what it declares
    pc,          \* position of parse: start, ascii, compressed, binary, build, done, threw
    PCDheader,   \* the header record returned by parseHeader
    i,           \* loop counter of the binary record loop
    row,         \* byte offset of record i in the DataView
    position1, normal1, color1,   \* accumulators of the no-floor group
    position2, normal2, color2,   \* accumulators of the floor group
    thrown,      \* the exception that ended parse, "none" when none
    console,     \* messages passed to console.error
    result,      \* what parse returned: "none" while running, "undefined", "group"
    geometry1, geometry2,   \* attribute names added to each BufferGeometry
    material1, material2,   \* [vertexColors, hex] of each PointsMaterial
    url,         \* the url handed to load and parse, a sequence of characters
    gr,          \* the Group of parse: [defined, name, children]
    myWorker,    \* the Worker of load: none, running, terminated
    loader,      \* the FileLoader request of load: none, pending, loaded, failed
    toWorker,    \* requests posted to the worker and not yet taken by it
    toMain,      \* replies posted by the worker and not yet handled
    posted,      \* every request postMessage was called with, in order
    handled,     \* the type of every reply onmessage has been run on, in order
    interval,    \* the interval idx of the promise: none, active, cleared
    promise,     \* the promise of parse: [state, value, resolves]
    ticks,       \* runs of the interval callback that found gr empty
    gizmo        \* the TransformGizmo: [kind, activePlane, rotation, handles, picker, call]

\* The state of the worker revision (src/src/extras/TransformGizmos.js).
wvars == <<myWorker, loader, toWorker, toMain, posted, handled, interval, promise, ticks>>

vars == <<data, pc, PCDheader, i, row, position1, normal1, color1,
          position2, normal2, color2, thrown, console, result,
          geometry1, geometry2, material1, material2, url, gr,
          myWorker, loader, toWorker, toMain, posted, handled, interval, promise, ticks,
          gizmo>>

(***************************************************************************)
(* Bounds of the inputs.                                                   *)
(***************************************************************************)
MaxFields == 3
MaxNumeral == 16
MaxDim == 3
MaxPoints == 2

(***************************************************************************)
(* JavaScript numbers.  Sizes, counts, offsets and indices are naturals;   *)
(* NaN and null are two values outside the naturals.                       *)
(***************************************************************************)
NaN == -1
Null == -2

\* ToNumber: null converts to 0, NaN stays NaN.
ToNumber(a) == IF a = Null THEN 0 ELSE a

\* a + b of JavaScript numbers (undefined converts to NaN before it gets here).
JsAdd(a, b) ==
    IF ToNumber(a) = NaN \/ ToNumber(b) = NaN THEN NaN ELSE ToNumber(a) + ToNumber(b)

\* a * b of JavaScript numbers.
JsMul(a, b) ==
    IF ToNumber(a) = NaN \/ ToNumber(b) = NaN THEN NaN ELSE ToNumber(a) * ToNumber(b)

\* a < b of JavaScript numbers: false as soon as one side is NaN.
JsLess(a, b) ==
    ToNumber(a) # NaN /\ ToNumber(b) # NaN /\ ToNumber(a) < ToNumber(b)

\* array[k] for a 1-based position k: undefined, hence NaN in arithmetic, past the end.
At(array, k) == IF k \in 1..Len(array) THEN array[k] ELSE NaN

Min(S) == CHOOSE m \in S : \A n \in S : m <= n

(***************************************************************************)
(* Text of the header.                                                     *)
(***************************************************************************)
\* parseInt of a token: the decimal numerals up to MaxNumeral parse to their
\* value, every other token of the vocabulary (names, the empty token) to NaN.
parseInt(t) ==
    IF \E n \in 0..MaxNumeral : ToString(n) = t
    THEN CHOOSE n \in 0..MaxNumeral : ToString(n) = t
    ELSE NaN

\* parseInt of a captured rest of line: the numeral prefix, i.e. the first token.
parseIntCap(cap) == IF cap = <<>> THEN NaN ELSE parseInt(cap[1])

\* parseFloat of the VERSION value, in tenths.
parseFloatCap(cap) ==
    IF cap = <<>> THEN NaN
    ELSE CASE cap[1] \in {".5", "0.5"} -> 5
           [] cap[1] \in {".6", "0.6"} -> 6
           [] cap[1] \in {".7", "0.7"} -> 7
           [] OTHER -> JsMul(parseInt(cap[1]), 10)

\* The /i flag: a token matches a key whatever its case.
Upper(t) ==
    CASE t = "version" -> "VERSION"
      [] t = "fields" -> "FIELDS"
      [] t = "size" -> "SIZE"
      [] t = "type" -> "TYPE"
      [] t = "count" -> "COUNT"
      [] t = "width" -> "WIDTH"
      [] t = "height" -> "HEIGHT"
      [] t = "viewpoint" -> "VIEWPOINT"
      [] t = "points" -> "POINTS"
      [] t = "data" -> "DATA"
      [] OTHER -> t

\* /[\r\n]DATA\s(\S*)\s/i: the first line, not the first of the file, that
\* starts with DATA and a value; 0 when there is none.
DataLine(text) ==
    LET hits == {n \in 2..Len(text) : Len(text[n]) >= 2 /\ Upper(text[n][1]) = "DATA"}
    IN  IF hits = {} THEN 0 ELSE Min(hits)

\* str.replace(/#.*/g, ''): every line loses its text from the first '#' on;
\* the space before the '#' stays, and split(' ') later makes an empty token of it.
StripLine(line) ==
    LET hits == {j \in 1..Len(line) : line[j] = "#"}
    IN  IF hits = {} THEN line
        ELSE IF Min(hits) = 1 THEN <<>>
        ELSE SubSeq(line, 1, Min(hits) - 1) \o <<"">>

StripComments(text) == [n \in 1..Len(text) |-> StripLine(text[n])]

\* /KEY (.*)/i.exec(str): the leftmost place of str where the key is followed by
\* a space, with the rest of that line captured and split on ' '.  The pattern
\* is not anchored: the key may stand anywhere in a line.  (No token of the
\* files below ends with a key without being that key.)
MatchPos(key, line) == {j \in 1..(Len(line) - 1) : Upper(line[j]) = key}

ExecKey(key, str) ==
    LET hits == {n \in 1..Len(str) : MatchPos(key, str[n]) # {}}
    IN  IF hits = {} THEN [found |-> FALSE, cap |-> <<>>]
        ELSE LET n == Min(hits)
                 j == Min(MatchPos(key, str[n]))
             IN  [found |-> TRUE, cap |-> SubSeq(str[n], j + 1, Len(str[n]))]

(***************************************************************************)
(* parseHeader, lines 42-149.                                              *)
(***************************************************************************)
\* lines 79-92: WIDTH, HEIGHT and POINTS to the number of records.
derivePointsWrong(points, width, height) ==
    IF points # Null THEN points ELSE JsAdd(width, height)

derivePoints(points, width, height) ==
    IF points # Null THEN points ELSE JsMul(width, height)

\* lines 112-122: the COUNT default, one 1 per field.
defaultCountWrong(fields) == [k \in 1..(Len(fields) - 1) |-> 1]

defaultCount(fields) == [k \in 1..Len(fields) |-> 1]

\* obj[key] = v
Put(obj, key, v) == [f \in DOMAIN obj \cup {key} |-> IF f = key THEN v ELSE obj[f]]

\* lines 124-145: the loop over the fields that fills PCDheader.offset and sums
\* the sizes; k is the 1-based position of the field the loop is at.
RECURSIVE offsetLoopWrong(_, _, _, _, _, _)
offsetLoopWrong(fields, size, mode, k, sizeSum, offset) ==
    IF k > Len(fields) THEN [offset |-> offset, rowSize |-> sizeSum]
    ELSE IF mode = "ascii"
         THEN offsetLoopWrong(fields, size, mode, k + 1, sizeSum, Put(offset, fields[k], k - 1))
         ELSE offsetLoopWrong(fields, size, mode, k + 1, JsAdd(sizeSum, At(size, k)),
                              Put(offset, fields[k], JsAdd(sizeSum, At(size, k))))

RECURSIVE offsetLoop(_, _, _, _, _, _)
offsetLoop(fields, size, mode, k, sizeSum, offset) ==
    IF k > Len(fields) THEN [offset |-> offset, rowSize |-> sizeSum]
    ELSE IF mode = "ascii"
         THEN offsetLoop(fields, size, mode, k + 1, sizeSum, Put(offset, fields[k], k - 1))
         ELSE offsetLoop(fields, size, mode, k + 1, JsAdd(sizeSum, At(size, k)),
                         Put(offset, fields[k], sizeSum))

NoOffsets == [f \in {} |-> 0]

NoHeader ==
    [err |-> "none", data |-> "", headerLines |-> 0, nulls |-> {},
     version |-> Null, fields |-> <<>>, size |-> <<>>, type |-> <<>>,
     count |-> <<>>, width |-> Null, height |-> Null, viewpoint |-> <<>>,
     points |-> Null, offset |-> NoOffsets, rowSize |-> 0]

\* The header record parseHeader returns, or err = "TypeError" where it throws:
\* result2 is null without a DATA line (line 48), fields is null without a
\* FIELDS line (lines 116, 128), size is null without a SIZE line (line 137).
\* nulls holds the keys whose exec found nothing and that stay null.
parseHeader(text) ==
    LET dl  == DataLine(text)
        str == StripComments(SubSeq(text, 1, dl))
        m(key) == ExecKey(key, str)
        nulls == {key \in {"VERSION", "FIELDS", "SIZE", "TYPE", "WIDTH", "HEIGHT", "VIEWPOINT"} :
                     ~m(key).found}
        mode == text[dl][2]
        fields == m("FIELDS").cap
        size == [k \in 1..Len(m("SIZE").cap) |-> parseInt(m("SIZE").cap[k])]
        width == IF m("WIDTH").found THEN parseIntCap(m("WIDTH").cap) ELSE Null
        height == IF m("HEIGHT").found THEN parseIntCap(m("HEIGHT").cap) ELSE Null
        points == IF m("POINTS").found THEN parseIntCap(m("POINTS").cap) ELSE Null
        count == IF m("COUNT").found
                 THEN [k \in 1..Len(m("COUNT").cap) |-> parseInt(m("COUNT").cap[k])]
                 ELSE defaultCount(fields)
        loop == offsetLoop(fields, size, mode, 1, 0, NoOffsets)
    IN  IF dl = 0 THEN [NoHeader EXCEPT !.err = "TypeError"]
        ELSE IF "FIELDS" \in nulls
        THEN [NoHeader EXCEPT !.err = "TypeError", !.data = mode, !.nulls = nulls]
        ELSE IF "SIZE" \in nulls /\ mode # "ascii"
        THEN [NoHeader EXCEPT !.err = "TypeError", !.data = mode, !.nulls = nulls]
        ELSE [err |-> "none", data |-> mode, headerLines |-> dl, nulls |-> nulls,
              version |-> IF m("VERSION").found THEN parseFloatCap(m("VERSION").cap) ELSE Null,
              fields |-> fields,
              size |-> size,
              type |-> m("TYPE").cap,
              count |-> count,
              width |-> width,
              height |-> height,
              viewpoint |-> m("VIEWPOINT").cap,
              points |-> derivePoints(points, width, height),
              offset |-> loop.offset,
              rowSize |-> loop.rowSize]

(***************************************************************************)
(* DataView over the payload (line 220).  Byte offsets are 0-based.        *)
(***************************************************************************)
\* this.littleEndian, line 20.
littleEndian == TRUE

\* ToIndex of a requested offset: NaN (an offset that is undefined or NaN)
\* converts to 0.
ToIndex(a) == IF ToNumber(a) = NaN THEN 0 ELSE ToNumber(a)

\* row + offset.field, where offset.field is undefined for an undeclared field.
FieldIndex(r, offset, field) ==
    ToIndex(JsAdd(r, IF field \in DOMAIN offset THEN offset[field] ELSE NaN))

\* Whether a read of n bytes at index idx stays inside the view; getFloat32 and
\* getUint8 throw a RangeError when it does not.
InView(view, idx, n) == idx + n <= Len(view)

\* getFloat32(idx, littleEndian): the IEEE 754 single of the four bytes, as
\* sign, biased exponent and fraction: (-1)^neg * (2^23 + frac) * 2^(exp - 150)
\* for 0 < exp < 255; NaN for exp = 255 and frac # 0.
getFloat32(view, idx, le) ==
    LET b(k) == view[idx + 1 + (IF le THEN k ELSE 3 - k)]
    IN  [neg  |-> b(3) >= 128,
         exp  |-> (b(3) % 128) * 2 + (b(2) \div 128),
         frac |-> (b(2) % 128) * 65536 + b(1) * 256 + b(0)]

\* getUint8(idx) / 255.0, kept as the fraction it is.
getUint8Over255(view, idx) == [num |-> view[idx + 1], den |-> 255]

IsNaN(v) == v.exp = 255 /\ v.frac # 0

\* The double 0.3 of line 230 is no single: it lies strictly between the singles
\* Below03 * 2^-25 and (Below03 + 1) * 2^-25, both of exponent 125.
Below03 == 10066329

\* |v| > 0.3 for a single v that is not NaN.
MagnitudeOver03(v) == v.exp > 125 \/ (v.exp = 125 /\ 8388608 + v.frac > Below03)

\* v > 0.3 and v < -0.3: comparisons with NaN are false.
GreaterThan03(v) == ~IsNaN(v) /\ ~v.neg /\ MagnitudeOver03(v)

LessThanMinus03(v) == ~IsNaN(v) /\ v.neg /\ MagnitudeOver03(v)

\* lines 227-236: the floor test on the z read from the record.
isFloorTest(z) == IF LessThanMinus03(z) \/ GreaterThan03(z) THEN FALSE ELSE TRUE

(***************************************************************************)
(* One pass of the binary record loop, lines 223-292, as the reads it      *)
(* makes in order.  Each read is [arr, kind, idx]: the accumulator the     *)
(* value is pushed to ("test" for the reads of the floor test, which push  *)
(* nothing), f32 or u8, and the byte index in the view.                    *)
(***************************************************************************)
Read(arr, kind, idx) == [arr |-> arr, kind |-> kind, idx |-> idx]

positionReadsWrong(r, offset) ==
    IF "x" \in DOMAIN offset
    THEN << Read("test", "f32", FieldIndex(r, offset, "z")),
            Read("position", "f32", FieldIndex(r, offset, "x")),
            Read("position", "f32", FieldIndex(r, offset, "y")),
            Read("position", "f32", FieldIndex(r, offset, "y")) >>
    ELSE << >>

positionReads(r, offset) ==
    IF "x" \in DOMAIN offset
    THEN << Read("test", "f32", FieldIndex(r, offset, "z")),
            Read("position", "f32", FieldIndex(r, offset, "x")),
            Read("position", "f32", FieldIndex(r, offset, "y")),
            Read("position", "f32", FieldIndex(r, offset, "z")) >>
    ELSE << >>

rgbReads(r, offset) ==
    IF "rgb" \in DOMAIN offset
    THEN [k \in 1..3 |-> Read("color", "u8", ToIndex(JsAdd(JsAdd(r, offset["rgb"]), k - 1)))]
    ELSE << >>

intensityReadsWrong(r, offset) ==
    IF "intensity" \in DOMAIN offset
    THEN << Read("color", "u8", ToIndex(JsAdd(JsAdd(r, offset["intensity"]), 0))) >>
    ELSE << >>

intensityReads(r, offset) ==
    IF "intensity" \in DOMAIN offset
    THEN [k \in 1..3 |-> Read("color", "u8", ToIndex(JsAdd(JsAdd(r, offset["intensity"]), 0)))]
    ELSE << >>

normalReads(r, offset) ==
    IF "normal_x" \in DOMAIN offset
    THEN << Read("normal", "f32", FieldIndex(r, offset, "normal_x")),
            Read("normal", "f32", FieldIndex(r, offset, "normal_y")),
            Read("normal", "f32", FieldIndex(r, offset, "normal_z")) >>
    ELSE << >>

recordReads(r, offset) ==
    positionReads(r, offset) \o rgbReads(r, offset)
        \o intensityReads(r, offset) \o normalReads(r, offset)

ReadFits(view, rd) == InView(view, rd.idx, IF rd.kind = "f32" THEN 4 ELSE 1)

ReadValue(view, rd) ==
    IF rd.kind = "f32" THEN getFloat32(view, rd.idx, littleEndian)
    ELSE getUint8Over255(view, rd.idx)

\* The reads made before the first one that throws (all of them when none does).
ReadsDone(view, reads) ==
    LET bad == {k \in 1..Len(reads) : ~ReadFits(view, reads[k])}
    IN  IF bad = {} THEN reads ELSE SubSeq(reads, 1, Min(bad) - 1)

\* The values pushed to accumulator arr by the reads, in order.
RECURSIVE Pushed(_, _, _)
Pushed(view, reads, arr) ==
    IF reads = << >> THEN << >>
    ELSE (IF reads[1].arr = arr THEN << ReadValue(view, reads[1]) >> ELSE << >>)
             \o Pushed(view, Tail(reads), arr)

\* isFloor of the pass at row r: false unless the header declares x and the
\* floor test says so.
isFloorOf(view, r, offset) ==
    IF "x" \in DOMAIN offset /\ InView(view, FieldIndex(r, offset, "z"), 4)
    THEN isFloorTest(getFloat32(view, FieldIndex(r, offset, "z"), littleEndian))
    ELSE FALSE

(***************************************************************************)
(* The files parse is run on.                                              *)
(***************************************************************************)
Numerals(seq) == [k \in 1..Len(seq) |-> ToString(seq[k])]

KeyLine(key, value) == IF value = Null THEN << >> ELSE << <<key, ToString(value)>> >>

\* The header text of a declaration d: the usual lines in the usual order,
\* COUNT, WIDTH, HEIGHT and POINTS only when d has them.
HeaderText(d) ==
    << <<"#", ".PCD", "v.7">>,
       <<"VERSION", ".7">>,
       <<"FIELDS">> \o d.fields,
       <<"SIZE">> \o Numerals(d.size),
       <<"TYPE">> \o [k \in 1..Len(d.fields) |-> "F"] >>
    \o (IF d.count = << >> THEN << >> ELSE << <<"COUNT">> \o Numerals(d.count) >>)
    \o KeyLine("WIDTH", d.width)
    \o KeyLine("HEIGHT", d.height)
    \o << <<"VIEWPOINT", "0", "0", "0", "1", "0", "0", "0">> >>
    \o KeyLine("POINTS", d.points)
    \o << <<"DATA", d.mode>> >>

Decl(fields, size, count, width, height, points, mode) ==
    [fields |-> fields, size |-> size, count |-> count,
     width |-> width, height |-> height, points |-> points, mode |-> mode]

\* Singles whose z decides the floor test: 0.0, 5.0, -5.0, the two singles
\* around 0.3, the two around -0.3, and a NaN; least significant byte first.
ZWords ==
    { <<0, 0, 0, 0>>, <<0, 0, 160, 64>>, <<0, 0, 160, 192>>,
      <<153, 153, 153, 62>>, <<154, 153, 153, 62>>,
      <<153, 153, 153, 190>>, <<154, 153, 153, 190>>,
      <<0, 0, 192, 127>> }

\* The four bytes record k carries for a field; zw is its z.
FieldWord(field, k, zw) ==
    CASE field = "z" -> zw
      [] field = "x" -> <<k, 0, 0, 0>>
      [] field = "y" -> <<k, 1, 0, 0>>
      [] field = "rgb" -> <<10 + k, 20 + k, 30 + k, 0>>
      [] field = "intensity" -> <<100 + k, 0, 0, 0>>
      [] field = "normal_x" -> <<k, 0, 128, 63>>
      [] field = "normal_y" -> <<k, 1, 128, 63>>
      [] OTHER -> <<k, 2, 128, 63>>

RECURSIVE RecordBytes(_, _, _, _)
RecordBytes(fields, size, k, zw) ==
    IF fields = << >> THEN << >>
    ELSE [b \in 1..size[1] |-> IF b <= 4 THEN FieldWord(fields[1], k, zw)[b] ELSE 0]
             \o RecordBytes(Tail(fields), Tail(size), k, zw)

RECURSIVE PayloadBytes(_, _, _, _)
PayloadBytes(fields, size, zs, k) ==
    IF k > Len(zs) THEN << >>
    ELSE RecordBytes(fields, size, k, zs[k]) \o PayloadBytes(fields, size, zs, k + 1)

\* The text after the header of an ascii file: one line per record, then the
\* empty line after the last line terminator.
AsciiBody(fields, n) ==
    [k \in 1..(n + 1) |-> IF k <= n THEN [f \in 1..Len(fields) |-> ToString(k + f)] ELSE <<"">>]

File(d, zs, cut) ==
    LET bytes == PayloadBytes(d.fields, d.size, zs, 1)
    IN  [decl |-> d,
         text |-> HeaderText(d),
         payload |-> IF d.mode = "ascii" THEN << >>
                     ELSE SubSeq(bytes, 1, Len(bytes) - cut),
         body |-> IF d.mode = "ascii" THEN AsciiBody(d.fields, Len(zs)) ELSE << >>]

Fours(fields) == [k \in 1..Len(fields) |-> 4]

\* Field lists of the files parse is run on.
ParseFieldLists ==
    { <<"x", "y", "z">>, <<"z", "x", "y">>, <<"x", "y", "z", "rgb">>,
      <<"x", "y", "z", "intensity">>, <<"x", "y", "z", "rgb", "intensity">>,
      <<"x", "y", "z", "normal_x", "normal_y", "normal_z">>,
      <<"rgb">>, <<"intensity", "normal_x", "normal_y", "normal_z">>,
      <<"x", "rgb">> }

\* Bytes missing at the end of a truncated payload.
Cuts == {0, 2, 6}

\* Binary files: n records declared, m records in the payload, cut bytes
\* missing at its end.
BinaryFile(fields, n, zs, cut) ==
    File(Decl(fields, Fours(fields), << >>, n, 1, n, "binary"), zs, cut)

\* Ascii and binary_compressed files, and files of an unknown data mode.
OtherFile(fields, n, mode) ==
    File(Decl(fields, Fours(fields), << >>, n, 1, n, mode), [k \in 1..n |-> <<0, 0, 0, 0>>], 0)

OtherFieldLists == {<<"x", "y", "z">>, <<"y", "z", "x", "rgb">>, <<"intensity">>}

(***************************************************************************)
(* PCDLoader.parse, lines 40-357.                                          *)
(***************************************************************************)
NoMaterial == [vertexColors |-> FALSE, hex |-> "default"]

\* var gr (line 350) before new Group() has run.
NoGroup == [defined |-> FALSE, name |-> << >>, children |-> << >>]

NoPromise == [state |-> "none", value |-> NoGroup, resolves |-> 0]

\* No load of the worker revision is under way.
NoWorker ==
    /\ myWorker = "none" /\ loader = "none"
    /\ toWorker = << >> /\ toMain = << >>
    /\ posted = << >> /\ handled = << >>
    /\ interval = "none" /\ promise = NoPromise /\ ticks = 0

\* The urls files are loaded from, character by character.
Urls == { <<"a", "/", "b">>, <<"b">>, <<"/", "a", "/">> }

\* No gizmo has been constructed.
NoGizmo ==
    [kind |-> "none", activePlane |-> "none", rotation |-> "none", handles |-> << >>,
     picker |-> << >>, call |-> << >>]

\* The loader before parse has run on file.
InitParse(file) ==
    /\ NoWorker
    /\ gr = NoGroup
    /\ data = file
    /\ pc = "start"
    /\ PCDheader = NoHeader
    /\ i = 0
    /\ row = 0
    /\ position1 = << >> /\ normal1 = << >> /\ color1 = << >>
    /\ position2 = << >> /\ normal2 = << >> /\ color2 = << >>
    /\ thrown = "none"
    /\ console = << >>
    /\ result = "none"
    /\ geometry1 = {} /\ geometry2 = {}
    /\ material1 = NoMaterial /\ material2 = NoMaterial

InitWith(file) == InitParse(file) /\ gizmo = NoGizmo

Init ==
    /\ url \in Urls
    /\ \/ \E fields \in ParseFieldLists, n \in 0..MaxPoints, m \in 0..MaxPoints, cut \in Cuts :
             \E zs \in [1..m -> ZWords] : InitWith(BinaryFile(fields, n, zs, cut))
       \/ \E fields \in OtherFieldLists, n \in 0..MaxPoints,
                mode \in {"ascii", "binary_compressed", "other"} :
             InitWith(OtherFile(fields, n, mode))

\* lines 151-164: decode the text, parse the header, create the accumulators.
ParseHeader ==
    /\ pc = "start"
    /\ PCDheader' = parseHeader(data.text)
    /\ IF PCDheader'.err # "none"
       THEN pc' = "threw" /\ thrown' = PCDheader'.err
       ELSE pc' = (IF PCDheader'.data = "ascii" THEN "ascii" ELSE "afterAscii")
            /\ thrown' = thrown
    /\ UNCHANGED wvars
    /\ UNCHANGED gizmo
    /\ UNCHANGED <<url, gr, data, i, row, position1, normal1, color1, position2, normal2,
                   color2, console, result, geometry1, geometry2, material1, material2>>

\* lines 168-206: the ascii branch.  Its first pass already throws a
\* ReferenceError: position, color and normal are declared nowhere (the
\* accumulators are position1, color1, ...), so the first push that a declared
\* field calls for fails.  split('\n') returns at least one line, so there is a
\* first pass.
asciiThrows(offset) == {"x", "rgb", "normal_x"} \cap DOMAIN offset # {}

AsciiBranch ==
    /\ pc = "ascii"
    /\ IF asciiThrows(PCDheader.offset)
       THEN pc' = "threw" /\ thrown' = "ReferenceError"
       ELSE pc' = "afterAscii" /\ thrown' = thrown
    /\ UNCHANGED wvars
    /\ UNCHANGED gizmo
    /\ UNCHANGED <<url, gr, data, PCDheader, i, row, position1, normal1, color1, position2,
                   normal2, color2, console, result, geometry1, geometry2,
                   material1, material2>>

\* line 210
unsupportedWrong(mode) == FALSE

unsupported(mode) == mode = "binary_compressed"

\* lines 210-215: binary_compressed is reported and parse returns undefined.
Compressed ==
    /\ pc = "afterAscii"
    /\ unsupported(PCDheader.data)
    /\ console' = Append(console, "THREE.PCDLoader: binary_compressed files are not supported")
    /\ result' = "undefined"
    /\ pc' = "done"
    /\ UNCHANGED wvars
    /\ UNCHANGED gizmo
    /\ UNCHANGED <<url, gr, data, PCDheader, i, row, position1, normal1, color1, position2,
                   normal2, color2, thrown, geometry1, geometry2, material1, material2>>

\* lines 218-223: the DataView over the payload and the start of the loop.
EnterBinary ==
    /\ pc = "afterAscii"
    /\ ~unsupported(PCDheader.data)
    /\ PCDheader.data = "binary"
    /\ pc' = "binary"
    /\ i' = 0
    /\ row' = 0
    /\ UNCHANGED wvars
    /\ UNCHANGED gizmo
    /\ UNCHANGED <<url, gr, data, PCDheader, position1, normal1, color1, position2, normal2,
                   color2, thrown, console, result, geometry1, geometry2,
                   material1, material2>>

\* A data mode that is none of the three: no branch is taken.
SkipBinary ==
    /\ pc = "afterAscii"
    /\ ~unsupported(PCDheader.data)
    /\ PCDheader.data # "binary"
    /\ pc' = "build"
    /\ UNCHANGED wvars
    /\ UNCHANGED gizmo
    /\ UNCHANGED <<url, gr, data, PCDheader, i, row, position1, normal1, color1, position2,
                   normal2, color2, thrown, console, result, geometry1, geometry2,
                   material1, material2>>

\* lines 223-292: one pass of the record loop.  The values read before the
\* first read outside the view are pushed; that read throws a RangeError.
BinaryRecord ==
    /\ pc = "binary"
    /\ JsLess(i, PCDheader.points)
    /\ LET reads   == recordReads(row, PCDheader.offset)
           done    == ReadsDone(data.payload, reads)
           isFloor == isFloorOf(data.payload, row, PCDheader.offset)
           to1(arr) == IF isFloor THEN << >> ELSE Pushed(data.payload, done, arr)
           to2(arr) == IF isFloor THEN Pushed(data.payload, done, arr) ELSE << >>
       IN  /\ position1' = position1 \o to1("position")
           /\ color1' = color1 \o to1("color")
           /\ normal1' = normal1 \o to1("normal")
           /\ position2' = position2 \o to2("position")
           /\ color2' = color2 \o to2("color")
           /\ normal2' = normal2 \o to2("normal")
           /\ IF Len(done) < Len(reads)
              THEN pc' = "threw" /\ thrown' = "RangeError" /\ UNCHANGED <<i, row>>
              ELSE /\ pc' = pc /\ thrown' = thrown
                   /\ i' = i + 1
                   /\ row' = JsAdd(row, PCDheader.rowSize)
    /\ UNCHANGED wvars
    /\ UNCHANGED gizmo
    /\ UNCHANGED <<url, gr, data, PCDheader, console, result, geometry1, geometry2,
                   material1, material2>>

\* line 223: the loop condition fails.
BinaryEnd ==
    /\ pc = "binary"
    /\ ~JsLess(i, PCDheader.points)
    /\ pc' = "build"
    /\ UNCHANGED wvars
    /\ UNCHANGED gizmo
    /\ UNCHANGED <<url, gr, data, PCDheader, i, row, position1, normal1, color1, position2,
                   normal2, color2, thrown, console, result, geometry1, geometry2,
                   material1, material2>>

\* lines 301-307: the attributes a geometry gets.
attributesOf(position, normal, color) ==
    (IF Len(position) > 0 THEN {"position"} ELSE {})
        \cup (IF Len(normal) > 0 THEN {"normal"} ELSE {})
        \cup (IF Len(color) > 0 THEN {"color"} ELSE {})

\* lines 314-334: the material of a group.
materialOfWrong(color) == [vertexColors |-> TRUE, hex |-> "default"]

materialOf(color) ==
    IF Len(color) > 0 THEN [vertexColors |-> TRUE, hex |-> "default"]
    ELSE [vertexColors |-> FALSE, hex |-> "6CA6CD"]

\* lines 296-355: geometries, materials and meshes are built, then new Group()
\* throws a ReferenceError: PCDLoader.js does not import Group (lines 10-16).
Build ==
    /\ pc = "build"
    /\ geometry1' = attributesOf(position1, normal1, color1)
    /\ geometry2' = attributesOf(position2, normal2, color2)
    /\ material1' = materialOf(color1)
    /\ material2' = materialOf(color2)
    /\ pc' = "threw"
    /\ thrown' = "ReferenceError"
    /\ UNCHANGED wvars
    /\ UNCHANGED gizmo
    /\ UNCHANGED <<url, gr, data, PCDheader, i, row, position1, normal1, color1, position2,
                   normal2, color2, console, result>>

Next ==
    \/ ParseHeader
    \/ AsciiBranch
    \/ Compressed
    \/ EnterBinary
    \/ SkipBinary
    \/ BinaryRecord
    \/ BinaryEnd
    \/ Build

Spec == Init /\ [][Next]_vars

(***************************************************************************)
(* What the properties below speak of.                                     *)
(***************************************************************************)
Declares(field) == \E k \in 1..Len(data.decl.fields) : data.decl.fields[k] = field

DeclaresXYZ == Declares("x") /\ Declares("y") /\ Declares("z")

Accumulators == <<position1, normal1, color1, position2, normal2, color2>>

\* The record loop has made i full passes and none has thrown.
PassesDone ==
    \/ pc \in {"binary", "build"}
    \/ pc = "threw" /\ thrown = "ReferenceError" /\ data.decl.mode = "binary"

LoopOver == PassesDone /\ pc # "binary"

\* The position of record k, the k-th rowSize-wide slice of the payload.
FieldOf(k, field) ==
    getFloat32(data.payload, (k - 1) * PCDheader.rowSize + PCDheader.offset[field],
               littleEndian)

RecordPosition(k) == <<FieldOf(k, "x"), FieldOf(k, "y"), FieldOf(k, "z")>>

\* |v| <= 3/10 for the real number a single v stands for:
\* 10 * (2^23 + frac) * 2^(exp - 150) <= 3, which for exp = 125 is
\* 10 * (2^23 + frac) <= 3 * 2^25.
AbsAtMost03(v) ==
    /\ ~IsNaN(v)
    /\ \/ v.exp < 125
       \/ v.exp = 125 /\ 10 * (8388608 + v.frac) <= 3 * 33554432

\* The positions of the records of S, flattened in file order.
RECURSIVE PositionsOf(_, _)
PositionsOf(S, n) ==
    IF n = 0 THEN << >>
    ELSE PositionsOf(S, n - 1) \o (IF n \in S THEN RecordPosition(n) ELSE << >>)

\* C1: in binary mode a record with a position is in the near-floor group
\* exactly when |z| <= 0.3, and in the above-floor group otherwise.
C1_FloorIffAbsAtMost03 ==
    (data.decl.mode = "binary" /\ DeclaresXYZ /\ PassesDone) =>
        /\ position2 = PositionsOf({k \in 1..i : AbsAtMost03(FieldOf(k, "z"))}, i)
        /\ position1 = PositionsOf({k \in 1..i : ~AbsAtMost03(FieldOf(k, "z"))}, i)

\* The same for the records whose z is a number (not NaN): the floor test
\* agrees with |z| <= 0.3 on every single that is not NaN.
FloorIffAbsAtMost03OnNumbers ==
    (data.decl.mode = "binary" /\ DeclaresXYZ /\ PassesDone
        /\ \A k \in 1..i : ~IsNaN(FieldOf(k, "z"))) =>
        /\ position2 = PositionsOf({k \in 1..i : AbsAtMost03(FieldOf(k, "z"))}, i)
        /\ position1 = PositionsOf({k \in 1..i : ~AbsAtMost03(FieldOf(k, "z"))}, i)

\* C2: after a binary parse of a file declaring x, y, z, every record's
\* position is in exactly one of the two position arrays, in file order within
\* each, so that the two hold 3 * pointCount numbers.
C2_DisjointAndComplete ==
    (data.decl.mode = "binary" /\ DeclaresXYZ /\ PassesDone) =>
        /\ \E S \in SUBSET (1..i) :
              /\ position2 = PositionsOf(S, i)
              /\ position1 = PositionsOf((1..i) \ S, i)
        /\ LoopOver => Len(position1) + Len(position2) = 3 * data.decl.points

C2_Witness ==
    /\ data.decl.mode = "binary" /\ DeclaresXYZ /\ LoopOver
    /\ data.decl.points >= 2
    /\ position1 # << >> /\ position2 # << >>

\* C3: a binary_compressed file ends parse with the unsupported-encoding
\* report and no result; no record is decoded, nothing is accumulated and no
\* geometry is built.
C3_CompressedRejected ==
    data.decl.mode = "binary_compressed" =>
        /\ pc \in {"start", "afterAscii", "done"}
        /\ thrown = "none"
        /\ i = 0
        /\ \A k \in 1..6 : Accumulators[k] = << >>
        /\ geometry1 = {} /\ geometry2 = {}
        /\ result \in {"none", "undefined"}
        /\ pc = "done" =>
              /\ result = "undefined"
              /\ console = <<"THREE.PCDLoader: binary_compressed files are not supported">>

C3_Witness ==
    /\ data.decl.mode = "binary_compressed" /\ data.decl.points >= 1
    /\ pc = "done" /\ result = "undefined" /\ Len(console) = 1

\* The positions an ascii file holds: for each of its pointCount lines the
\* numbers in the columns of x, y and z.
Column(field) == CHOOSE k \in 1..Len(data.decl.fields) : data.decl.fields[k] = field

RECURSIVE AsciiPositions(_)
AsciiPositions(n) ==
    IF n = 0 THEN << >>
    ELSE AsciiPositions(n - 1)
             \o << parseInt(data.body[n][Column("x")]), parseInt(data.body[n][Column("y")]),
                   parseInt(data.body[n][Column("z")]) >>

\* C8: for an ascii file declaring x, y, z parse completes, and its output
\* carries the position of each of the pointCount payload lines, in order, and
\* nothing else.
C8_AsciiPositions ==
    (data.decl.mode = "ascii" /\ DeclaresXYZ /\ pc \in {"build", "done", "threw"}) =>
        /\ thrown = "none"
        /\ position1 \o position2 = AsciiPositions(data.decl.points)

\* C9: after a binary parse each of the six arrays has a length that is a
\* multiple of 3, and the arrays of an attribute whose field the header does
\* not declare are empty in both groups.
C9_TriplesAndAbsentEmpty ==
    (data.decl.mode = "binary" /\ PassesDone) =>
        /\ \A k \in 1..6 : Len(Accumulators[k]) % 3 = 0
        /\ ~Declares("x") => position1 = << >> /\ position2 = << >>
        /\ ~Declares("normal_x") => normal1 = << >> /\ normal2 = << >>
        /\ (~Declares("rgb") /\ ~Declares("intensity")) => color1 = << >> /\ color2 = << >>

C9_Witness ==
    /\ data.decl.mode = "binary" /\ LoopOver
    /\ Declares("intensity") /\ ~Declares("rgb") /\ ~Declares("normal_x")
    /\ color1 # << >> /\ color2 # << >>
    /\ normal1 = << >> /\ normal2 = << >>

\* C10: in binary mode, when the header declares no x field, no record
\* contributes to either group: all six arrays stay empty.
C10_NoPositionNoContribution ==
    (data.decl.mode = "binary" /\ ~Declares("x") /\ PassesDone) =>
        \A k \in 1..6 : Accumulators[k] = << >>

(***************************************************************************)
(* parseHeader on its own, over headers of every layout.                   *)
(***************************************************************************)
FieldNames == {"x", "y", "z", "rgb"}

\* The lists of up to MaxFields different field names, in every order.
FieldLists ==
    { fields \in UNION {[1..n -> FieldNames] : n \in 1..MaxFields} :
        \A j, k \in 1..Len(fields) : j # k => fields[j] # fields[k] }

\* Headers that differ in FIELDS, SIZE, COUNT and DATA.
LayoutDecl(fields, size, count, mode) == Decl(fields, size, count, 2, 1, 2, mode)

\* Headers that differ in WIDTH, HEIGHT and POINTS, each present or not.
DimDecl(width, height, points, mode) ==
    Decl(<<"x", "y", "z">>, <<4, 4, 4>>, << >>, width, height, points, mode)

HeaderFile(d) == [decl |-> d, text |-> HeaderText(d), payload |-> << >>, body |-> << >>]

InitHeader ==
    /\ url = <<"a", "/", "b">>
    /\ \/ \E fields \in FieldLists, mode \in {"ascii", "binary"} :
             \E size \in [1..Len(fields) -> {1, 4, 8}],
                count \in {<< >>} \cup [1..Len(fields) -> {1, 2}] :
                InitWith(HeaderFile(LayoutDecl(fields, size, count, mode)))
       \/ \E width \in {Null} \cup 0..MaxDim, height \in {Null} \cup 0..MaxDim,
                points \in {Null} \cup 0..MaxDim, mode \in {"ascii", "binary"} :
             InitWith(HeaderFile(DimDecl(width, height, points, mode)))

SpecHeader == InitHeader /\ [][ParseHeader]_vars

HeaderParsed == pc # "start" /\ PCDheader.err = "none"

RECURSIVE SumTo(_, _)
SumTo(seq, n) == IF n = 0 THEN 0 ELSE SumTo(seq, n - 1) + seq[n]

\* C4: for a binary header every field has the byte offset that is the sum of
\* the sizes of the fields declared before it, in declaration order; the keys
\* of the offset map are the declared field names; x, y, z of size 4 have
\* offsets 0, 4, 8 and rowSize 12.
C4_OffsetsFollowDeclaration ==
    (HeaderParsed /\ data.decl.mode = "binary") =>
        /\ DOMAIN PCDheader.offset = {data.decl.fields[k] : k \in 1..Len(data.decl.fields)}
        /\ \A k \in 1..Len(data.decl.fields) :
              PCDheader.offset[data.decl.fields[k]] = SumTo(data.decl.size, k - 1)
        /\ (data.decl.fields = <<"x", "y", "z">> /\ data.decl.size = <<4, 4, 4>>) =>
              /\ PCDheader.offset = [f \in {"x", "y", "z"} |->
                                        IF f = "x" THEN 0 ELSE IF f = "y" THEN 4 ELSE 8]
              /\ PCDheader.rowSize = 12

C4_Witness ==
    /\ HeaderParsed /\ data.decl.mode = "binary"
    /\ data.decl.fields = <<"z", "x", "y">> /\ data.decl.size = <<8, 4, 1>>
    /\ PCDheader.offset["z"] = 0 /\ PCDheader.offset["x"] = 8 /\ PCDheader.offset["y"] = 12

\* The fields' sizes weighted by their counts (1 each without a COUNT line).
RECURSIVE WeightedSum(_, _, _)
WeightedSum(size, count, n) ==
    IF n = 0 THEN 0
    ELSE WeightedSum(size, count, n - 1) + size[n] * (IF count = << >> THEN 1 ELSE count[n])

\* C5: for a binary header rowSize is the sum over the fields of
\* size * count, whatever the declared SIZE and COUNT values.
C5_StrideWeightedByCount ==
    (HeaderParsed /\ data.decl.mode = "binary") =>
        PCDheader.rowSize =
            WeightedSum(data.decl.size, data.decl.count, Len(data.decl.fields))

\* C6: with WIDTH = w, HEIGHT = h and no POINTS line the number of records is
\* w * h; with a POINTS line it is the value of that line.
C6_PointCount ==
    HeaderParsed =>
        /\ (data.decl.points = Null /\ data.decl.width # Null /\ data.decl.height # Null) =>
              PCDheader.points = data.decl.width * data.decl.height
        /\ data.decl.points # Null => PCDheader.points = data.decl.points

C6_Witness ==
    /\ HeaderParsed
    /\ data.decl.points = Null /\ data.decl.width = 3 /\ data.decl.height = 2
    /\ PCDheader.points = 6

\* C7: with N declared fields and no COUNT line, count has length N and every
\* entry is 1.
C7_DefaultCount ==
    (HeaderParsed /\ data.decl.count = << >>) =>
        /\ Len(PCDheader.count) = Len(data.decl.fields)
        /\ \A k \in 1..Len(PCDheader.count) : PCDheader.count[k] = 1

C7_Witness ==
    /\ HeaderParsed /\ data.decl.count = << >> /\ data.decl.mode = "ascii"
    /\ Len(data.decl.fields) = 3 /\ PCDheader.count = <<1, 1, 1>>

(***************************************************************************)
(* The worker revision of the loader, src/src/extras/TransformGizmos.js    *)
(* lines 748-980: load creates a Worker and fetches the file, parse talks  *)
(* to the worker by messages and returns a promise that an interval        *)
(* resolves.  One load is followed from its call on.  The worker's own     *)
(* script, /assets/PcdWorker.js, answers 'initialize' with the header of   *)
(* the file and 'process' with the attribute arrays of the two groups.     *)
(***************************************************************************)
MaxTicks == 2

Reverse(s) == [k \in 1..Len(s) |-> s[Len(s) + 1 - k]]

\* /([^\/]*)/.exec(s)[1]: the characters of s before its first '/'.
NotSlashRun(s) ==
    LET hits == {k \in 1..Len(s) : s[k] = "/"}
    IN  IF hits = {} THEN s ELSE SubSeq(s, 1, Min(hits) - 1)

\* lines 949-951: reverse the url, take the run before the first '/', reverse.
lastSegment(u) == Reverse(NotSlashRun(Reverse(u)))

Range(seq) == {seq[k] : k \in 1..Len(seq)}

\* The files the worker revision is run on.
WorkerFile(fields, n, mode) ==
    File(Decl(fields, Fours(fields), << >>, n, 1, n, mode), [k \in 1..n |-> <<0, 0, 160, 64>>], 0)

InitWorker ==
    /\ url \in Urls
    /\ \E fields \in OtherFieldLists, n \in 0..MaxPoints,
          mode \in {"ascii", "binary", "binary_compressed", "other"} :
          InitWith(WorkerFile(fields, n, mode))

syncVars == <<pc, i, row, position1, normal1, color1, position2, normal2, color2>>

\* lines 756-763, 768: the worker is created and the request for url is sent.
load ==
    /\ myWorker = "none"
    /\ myWorker' = "running"
    /\ loader' = "pending"
    /\ UNCHANGED gizmo
    /\ UNCHANGED <<syncVars, data, url, PCDheader, thrown, console, result, gr,
                   geometry1, geometry2, material1, material2,
                   toWorker, toMain, posted, handled, interval, promise, ticks>>

\* lines 764-766 and parse, lines 772-778 and 967-977: the file has arrived;
\* parse creates the group, posts 'initialize', sets onmessage, starts the
\* interval and returns the promise, which onLoad is called with.
FileLoaded ==
    /\ loader = "pending"
    /\ loader' = "loaded"
    /\ gr' = [defined |-> TRUE, name |-> << >>, children |-> << >>]
    /\ toWorker' = Append(toWorker, "initialize")
    /\ posted' = Append(posted, "initialize")
    /\ interval' = "active"
    /\ promise' = [state |-> "pending", value |-> NoGroup, resolves |-> 0]
    /\ result' = "promise"
    /\ UNCHANGED gizmo
    /\ UNCHANGED <<syncVars, data, url, PCDheader, thrown, console,
                   geometry1, geometry2, material1, material2,
                   myWorker, toMain, handled, ticks>>

\* line 768: the request failed and the FileLoader calls onError; parse is
\* never called, and nothing else of load runs.
FileError ==
    /\ loader = "pending"
    /\ loader' = "failed"
    /\ UNCHANGED gizmo
    /\ UNCHANGED <<syncVars, data, url, PCDheader, thrown, console, result, gr,
                   geometry1, geometry2, material1, material2,
                   myWorker, toWorker, toMain, posted, handled, interval, promise, ticks>>

\* The header the worker answers with, as the header of a file is described:
\* its encoding, fields, sizes, counts (1 per field when absent) and number of
\* records (width times height when not stated).
workerHeader(d) ==
    [NoHeader EXCEPT !.data = d.mode, !.fields = d.fields, !.size = d.size,
                     !.count = IF d.count = << >> THEN [k \in 1..Len(d.fields) |-> 1]
                               ELSE d.count,
                     !.width = d.width, !.height = d.height,
                     !.points = IF d.points = Null THEN JsMul(d.width, d.height)
                                ELSE d.points]

\* The worker takes 'initialize' and answers 'initialized' with the header.
WorkerInitialize ==
    /\ myWorker = "running"
    /\ toWorker # << >> /\ Head(toWorker) = "initialize"
    /\ toWorker' = Tail(toWorker)
    /\ toMain' = Append(toMain, [type |-> "initialized", PCDheader |-> workerHeader(data.decl),
                                 color1 |-> 0, color2 |-> 0])
    /\ UNCHANGED gizmo
    /\ UNCHANGED <<syncVars, data, url, PCDheader, thrown, console, result, gr,
                   geometry1, geometry2, material1, material2,
                   myWorker, loader, posted, handled, interval, promise, ticks>>

\* The worker takes 'process' and answers 'processed' with the arrays of the
\* two groups; color1 and color2 are the counts of its two color attributes.
WorkerProcess ==
    /\ myWorker = "running"
    /\ toWorker # << >> /\ Head(toWorker) = "process"
    /\ toWorker' = Tail(toWorker)
    /\ \E c1 \in {0, data.decl.points}, c2 \in {0, data.decl.points} :
          toMain' = Append(toMain, [type |-> "processed", PCDheader |-> PCDheader,
                                    color1 |-> c1, color2 |-> c2])
    /\ UNCHANGED gizmo
    /\ UNCHANGED <<syncVars, data, url, PCDheader, thrown, console, result, gr,
                   geometry1, geometry2, material1, material2,
                   myWorker, loader, posted, handled, interval, promise, ticks>>

\* line 834: the header encoding 'process' is posted for.
processPostedWrong(mode) == mode \notin {"ascii", "binary_compressed"}

processPosted(mode) == mode = "binary"

\* lines 778-837: onmessage run on an 'initialized' reply.  With an ascii
\* header the handler throws a ReferenceError at line 787, textData being
\* declared nowhere; with binary_compressed it reports and returns; with binary
\* it posts 'process'.  No path of it terminates the worker.
onmessageInitialized ==
    /\ myWorker = "running"
    /\ toMain # << >> /\ Head(toMain).type = "initialized"
    /\ toMain' = Tail(toMain)
    /\ handled' = Append(handled, "initialized")
    /\ PCDheader' = Head(toMain).PCDheader
    /\ LET mode == Head(toMain).PCDheader.data
       IN  CASE mode = "ascii" ->
                  /\ thrown' = "ReferenceError"
                  /\ UNCHANGED <<console, toWorker, posted>>
             [] mode = "binary_compressed" ->
                  /\ console' = Append(console,
                         "THREE.PCDLoader: binary_compressed files are not supported")
                  /\ UNCHANGED <<thrown, toWorker, posted>>
             [] OTHER ->
                  /\ IF processPosted(mode)
                     THEN /\ toWorker' = Append(toWorker, "process")
                          /\ posted' = Append(posted, "process")
                     ELSE UNCHANGED <<toWorker, posted>>
                  /\ UNCHANGED <<thrown, console>>
    /\ UNCHANGED gizmo
    /\ UNCHANGED <<syncVars, data, url, result, gr,
                   geometry1, geometry2, material1, material2,
                   myWorker, loader, interval, promise, ticks>>

\* lines 880-915: every geometry gets all four attributes.
workerAttributes == {"position", "normal", "color", "intensity"}

\* lines 924-944: the material of a group whose color attribute has count n.
workerMaterial(n) == [vertexColors |-> n > 0, hex |-> "default"]

\* lines 948-963: the names of the two meshes added to gr, in the order added.
workerMeshesWrong(u) == << lastSegment(u) \o <<"_not_visible">> >>

workerMeshes(u) == << lastSegment(u) \o <<"_not_visible">>, lastSegment(u) >>

\* lines 841-965: onmessage run on a 'processed' reply: the worker is
\* terminated, geometries, materials and meshes are built and both meshes are
\* added to gr, all in the one run of the handler.
onmessageProcessed ==
    /\ myWorker = "running"
    /\ toMain # << >> /\ Head(toMain).type = "processed"
    /\ toMain' = Tail(toMain)
    /\ handled' = Append(handled, "processed")
    /\ myWorker' = "terminated"
    /\ geometry1' = workerAttributes
    /\ geometry2' = workerAttributes
    /\ material1' = workerMaterial(Head(toMain).color1)
    /\ material2' = workerMaterial(Head(toMain).color2)
    /\ gr' = [defined |-> TRUE, name |-> lastSegment(url), children |-> workerMeshes(url)]
    /\ UNCHANGED gizmo
    /\ UNCHANGED <<syncVars, data, url, PCDheader, thrown, console, result,
                   loader, toWorker, posted, interval, promise, ticks>>

\* line 969: the test the interval callback makes.
intervalTestWrong(g) == g.defined

intervalTest(g) == g.defined /\ Len(g.children) # 0

\* lines 968-973: one run of the interval callback, 500 ms after the last.
\* Runs that find gr empty are counted, the count stopping at MaxTicks.
intervalCallback ==
    /\ interval = "active"
    /\ IF intervalTest(gr)
       THEN /\ interval' = "cleared"
            /\ promise' = [state |-> "resolved", value |-> gr,
                           resolves |-> promise.resolves + 1]
            /\ UNCHANGED ticks
       ELSE /\ ticks' = IF ticks < MaxTicks THEN ticks + 1 ELSE ticks
            /\ UNCHANGED <<interval, promise>>
    /\ UNCHANGED gizmo
    /\ UNCHANGED <<syncVars, data, url, PCDheader, thrown, console, result, gr,
                   geometry1, geometry2, material1, material2,
                   myWorker, loader, toWorker, toMain, posted, handled>>

NextWorker ==
    \/ load
    \/ FileLoaded
    \/ FileError
    \/ WorkerInitialize
    \/ onmessageInitialized
    \/ WorkerProcess
    \/ onmessageProcessed
    \/ intervalCallback

SpecWorker == InitWorker /\ [][NextWorker]_vars

\* The FileLoader ends every request, the worker answers every request, the
\* event loop runs onmessage on every reply and the interval callback again
\* and again while the interval is not cleared.
SpecWorkerFair ==
    /\ SpecWorker
    /\ WF_vars(FileLoaded \/ FileError)
    /\ WF_vars(WorkerInitialize)
    /\ WF_vars(WorkerProcess)
    /\ WF_vars(onmessageInitialized)
    /\ WF_vars(onmessageProcessed)
    /\ WF_vars(intervalCallback)

\* The group a finished parse hands over: both meshes added, named after url.
ResultGroup ==
    [defined |-> TRUE, name |-> lastSegment(url),
     children |-> << lastSegment(url) \o <<"_not_visible">>, lastSegment(url) >>]

\* C11: when the decode finishes, the promise of parse is resolved exactly
\* once, with the result group, never before the 'processed' reply has been
\* handled, and the interval makes no resolution after that: resolve is called
\* at most once; a resolved promise holds the result group, 'processed' has
\* been handled and the interval is cleared; a resolved promise never changes;
\* and once 'processed' has been handled the promise gets resolved.
C11_ResolvedOnceAfterProcessed ==
    /\ [](promise.resolves <= 1)
    /\ [](promise.state = "resolved" =>
            /\ "processed" \in Range(handled)
            /\ promise.value = ResultGroup
            /\ promise.resolves = 1
            /\ interval = "cleared")
    /\ [][promise.state = "resolved" => promise' = promise /\ interval' = interval]_vars
    /\ ("processed" \in Range(handled)) ~> (promise.state = "resolved")

\* A promise resolved after a run of the interval that found gr still empty.
C11_Witness ==
    /\ promise.state = "resolved"
    /\ promise.value = ResultGroup
    /\ ticks > 0
    /\ handled = <<"initialized", "processed">>

\* C12: every Worker that load creates is terminated in the end, whatever
\* follows: a 'processed' result, a failed fetch, an ascii or a
\* binary_compressed header, an exception in onmessage.
C12_WorkerEventuallyTerminated ==
    (myWorker = "running") ~> (myWorker = "terminated")

(***************************************************************************)
(* PCDLoader.parse on files with a malformed header.                       *)
(***************************************************************************)
\* What a header is made to lack: its DATA line, its FIELDS line, or a number
\* as the value of SIZE, POINTS, WIDTH or HEIGHT.
Defects == {"DATA", "FIELDS", "SIZE", "POINTS", "WIDTH", "HEIGHT"}

\* The header text with the line of key dropped (DATA, FIELDS) or with the
\* first value of that line replaced by a word that is no number.
Malformed(text, key) ==
    LET n == CHOOSE k \in 1..Len(text) : text[k][1] = key
    IN  IF key \in {"DATA", "FIELDS"}
        THEN SubSeq(text, 1, n - 1) \o SubSeq(text, n + 1, Len(text))
        ELSE [text EXCEPT ![n][2] = "abc"]

MalformedFile(fields, zs, mode, key) ==
    LET f == File(Decl(fields, Fours(fields), << >>, Len(zs), 1, Len(zs), mode), zs, 0)
    IN  [decl |-> f.decl, text |-> Malformed(f.text, key), payload |-> f.payload,
         body |-> f.body, defect |-> key]

InitMalformed ==
    /\ url = <<"a", "/", "b">>
    /\ \E fields \in {<<"x", "y", "z">>, <<"z", "x", "y", "rgb">>}, n \in 0..MaxPoints,
          mode \in {"ascii", "binary", "binary_compressed", "other"}, key \in Defects :
          \E zs \in [1..n -> {<<0, 0, 0, 0>>, <<0, 0, 160, 64>>}] :
             InitWith(MalformedFile(fields, zs, mode, key))

SpecMalformed == InitMalformed /\ [][Next]_vars

\* C13: on a malformed header parse reports a parse error and goes no
\* further: once parseHeader has run, parse has ended with the error of the
\* header, no record has been decoded and nothing has been built.
C13_MalformedHeaderRejected ==
    pc # "start" =>
        /\ pc = "threw"
        /\ PCDheader.err # "none"
        /\ i = 0
        /\ \A k \in 1..6 : Accumulators[k] = << >>
        /\ geometry1 = {} /\ geometry2 = {}

(***************************************************************************)
(* Properties of PCDLoader.parse on the files of Spec, continued.          *)
(***************************************************************************)
\* The payload is shorter than the records the header announces.
ShortPayload ==
    /\ pc # "start"
    /\ PCDheader.err = "none"
    /\ PCDheader.data = "binary"
    /\ Len(data.payload) < PCDheader.points * PCDheader.rowSize

\* C14: when the binary payload has fewer bytes than pointCount *
\* recordStride, parse ends with a decode error and returns no groups: the
\* record loop never runs to its end, nothing is built, the only way parse
\* ends is the RangeError of a read, and every read made lies inside the
\* buffer.
C14_ShortPayloadIsDecodeError ==
    ShortPayload =>
        /\ pc # "build"
        /\ pc = "threw" => thrown = "RangeError"
        /\ result = "none"
        /\ geometry1 = {} /\ geometry2 = {}
        /\ \A k \in 1..i :
              \A n \in 1..Len(recordReads((k - 1) * PCDheader.rowSize, PCDheader.offset)) :
                 ReadFits(data.payload,
                          recordReads((k - 1) * PCDheader.rowSize, PCDheader.offset)[n])

(***************************************************************************)
(* parseHeader, lines 44-50, character by character: where the DATA line   *)
(* is and where the header ends.  A file is a sequence of characters; LF,  *)
(* CR and SP stand for the line feed, the carriage return and the space.   *)
(***************************************************************************)
\* \s and \S
Whitespace == {"SP", "LF", "CR"}

\* [\r\n]DATA with the /i flag, at the 1-based place p of s.
DataAt(s, p) ==
    /\ p + 4 <= Len(s)
    /\ s[p] \in {"CR", "LF"}
    /\ s[p + 1] \in {"D", "d"} /\ s[p + 2] \in {"A", "a"}
    /\ s[p + 3] \in {"T", "t"} /\ s[p + 4] \in {"A", "a"}

\* /[\r\n]DATA\s(\S*)\s/i matched at p: after DATA one whitespace character,
\* the longest run of other characters, and the one whitespace character that
\* ends the run.  0 when there is no match at p, else the place of that last
\* character.
DataMatchEnd(s, p) ==
    IF DataAt(s, p) /\ p + 5 <= Len(s) /\ s[p + 5] \in Whitespace
       /\ \E e \in (p + 6)..Len(s) : s[e] \in Whitespace
    THEN Min({e \in (p + 6)..Len(s) : s[e] \in Whitespace})
    ELSE 0

\* regexp.exec(s): the leftmost match, [index, length, group 1], index 0-based
\* and -1 for null.
DataExec(s) ==
    LET hits == {p \in 1..Len(s) : DataMatchEnd(s, p) # 0}
    IN  IF hits = {} THEN [index |-> -1, length |-> 0, group1 |-> << >>]
        ELSE LET p == Min(hits)
                 e == DataMatchEnd(s, p)
             IN  [index |-> p - 1, length |-> e - p + 1, group1 |-> SubSeq(s, p + 6, e - 1)]

\* s.substr(start): from the 0-based start on, a negative start counting
\* from the end.
substr(s, start) ==
    LET from == IF start >= 0 THEN start
                ELSE IF Len(s) + start > 0 THEN Len(s) + start ELSE 0
    IN  SubSeq(s, from + 1, Len(s))

\* lines 45-50: result1, result2, PCDheader.data and PCDheader.headerLen, or
\* the TypeError of result2[ 1 ] when result2 is null.
dataLine(s) ==
    LET result1 == DataExec(s).index
        result2 == DataExec(substr(s, result1 - 1))
    IN  IF result2.index = -1
        THEN [err |-> "TypeError", data |-> << >>, headerLen |-> 0]
        ELSE [err |-> "none", data |-> result2.group1,
              headerLen |-> result2.length + result1]

\* The lines of a file, each followed by the line terminator eol.
RECURSIVE Joined(_, _)
Joined(lines, eol) ==
    IF lines = << >> THEN << >> ELSE Head(lines) \o eol \o Joined(Tail(lines), eol)

\* A file as characters: the header lines before the DATA line, the DATA
\* line, the payload; payloadStart is the 0-based index of the first
\* character after the terminator of the DATA line.
DataFile(before, keyword, mode, eol, payload) ==
    LET header == Joined(before \o << keyword \o <<"SP">> \o mode >>, eol)
    IN  [chars |-> header \o payload, payloadStart |-> Len(header),
         mode |-> mode, eol |-> eol]

HeadersBefore ==
    { << <<"#", "SP", "p">> >>,
      << <<"V", "SP", "7">>, <<"F", "SP", "x", "SP", "y">> >>,
      << <<"F", "SP", "d", "a", "t", "a", "SP", "x">>, <<"P", "SP", "1">> >>,
      << <<"#", "D", "A", "T", "A", "SP", "x">>, <<"S", "SP", "4">> >> }

InitDataLine ==
    /\ url = <<"a", "/", "b">>
    /\ \E before \in HeadersBefore,
          keyword \in {<<"D", "A", "T", "A">>, <<"d", "a", "t", "a">>},
          mode \in {<<"a", "s", "c", "i", "i">>, <<"b", "i", "n", "a", "r", "y">>, <<"b", "_", "c">>},
          eol \in {<<"LF">>, <<"CR", "LF">>},
          payload \in {<< >>, <<"1">>, <<"0", "SP", "1", "LF">>, <<"LF", "0">>} :
          InitWith(DataFile(before, keyword, mode, eol, payload))

\* lines 44-50 of parseHeader, run on the characters of the file.
LocateData ==
    /\ pc = "start"
    /\ PCDheader' = dataLine(data.chars)
    /\ IF PCDheader'.err # "none"
       THEN pc' = "threw" /\ thrown' = PCDheader'.err
       ELSE pc' = "header" /\ thrown' = thrown
    /\ UNCHANGED wvars
    /\ UNCHANGED gizmo
    /\ UNCHANGED <<url, gr, data, i, row, position1, normal1, color1, position2, normal2,
                   color2, console, result, geometry1, geometry2, material1, material2>>

SpecDataLine == InitDataLine /\ [][LocateData]_vars

\* C15: headerLen is the index of the first payload character, the one right
\* after the line terminator of the DATA line, whether lines end with LF or
\* with CR LF.
C15_HeaderLenIsPayloadStart ==
    pc # "start" =>
        /\ PCDheader.err = "none"
        /\ PCDheader.headerLen = data.payloadStart

\* With LF as the line terminator headerLen is that index.  (Not a claim of
\* its own: it shows where the code and C15 agree.)
HeaderLenIsPayloadStartOnLF ==
    (pc # "start" /\ data.eol = <<"LF">>) =>
        /\ PCDheader.err = "none"
        /\ PCDheader.data = data.mode
        /\ PCDheader.headerLen = data.payloadStart

(***************************************************************************)
(* parseHeader on headers with key words in other places than the start    *)
(* of their own line.                                                      *)
(***************************************************************************)
Lower(t) ==
    CASE t = "VERSION" -> "version"
      [] t = "FIELDS" -> "fields"
      [] t = "SIZE" -> "size"
      [] t = "TYPE" -> "type"
      [] t = "COUNT" -> "count"
      [] t = "WIDTH" -> "width"
      [] t = "HEIGHT" -> "height"
      [] t = "VIEWPOINT" -> "viewpoint"
      [] t = "POINTS" -> "points"
      [] t = "DATA" -> "data"
      [] OTHER -> t

\* The same header written another way: with its keys in lower case, or with
\* comment lines that mention keys.
Written(text, how) ==
    CASE how = "lower" ->
            [n \in 1..Len(text) |-> [text[n] EXCEPT ![1] = Lower(text[n][1])]]
      [] how = "comments" ->
            << text[1], <<"#", "WIDTH", "9", "HEIGHT", "9">>, <<"#", "SIZE", "8", "POINTS", "7">> >>
                \o SubSeq(text, 2, Len(text))
      [] OTHER -> text

\* Field lists, some with a field named like a header key.
KeyFieldLists ==
    { <<"x", "y", "z">>, <<"x", "y", "z", "rgb">>, <<"x", "width", "y">>,
      <<"size", "x", "y">>, <<"x", "y", "points">>, <<"height", "z">>,
      <<"x", "count", "z">> }

KeysFile(d, how) ==
    [decl |-> d, text |-> Written(HeaderText(d), how), payload |-> << >>, body |-> << >>]

InitKeys ==
    /\ url = <<"a", "/", "b">>
    /\ \E fields \in KeyFieldLists, width \in {Null, 1, 2}, height \in {Null, 1},
          points \in {Null, 2}, mode \in {"ascii", "binary"},
          how \in {"plain", "lower", "comments"} :
          InitWith(KeysFile(Decl(fields, Fours(fields), << >>, width, height, points, mode), how))

SpecKeys == InitKeys /\ [][ParseHeader]_vars

\* Every key has the value its own line gives it, and none when it has no line.
ValuesOfOwnLines ==
    /\ PCDheader.err = "none"
    /\ PCDheader.version = 7
    /\ PCDheader.fields = data.decl.fields
    /\ PCDheader.size = data.decl.size
    /\ PCDheader.type = [k \in 1..Len(data.decl.fields) |-> "F"]
    /\ PCDheader.count = [k \in 1..Len(data.decl.fields) |-> 1]
    /\ PCDheader.width = data.decl.width
    /\ PCDheader.height = data.decl.height
    /\ PCDheader.viewpoint = <<"0", "0", "0", "1", "0", "0", "0">>
    /\ data.decl.points # Null => PCDheader.points = data.decl.points

\* C16: parseHeader takes the value of every key only from the line that
\* begins with the key, in any case; comment lines and key words inside other
\* lines, such as a field named width or size, change no value.
C16_ValuesOnlyFromOwnLines == pc # "start" => ValuesOfOwnLines

\* On headers none of whose fields is named like a key the values are those
\* of the keys' own lines.  (Not a claim of its own: it shows where the code
\* and C16 agree.)
ValuesOfOwnLinesWithoutKeyNamedFields ==
    (pc # "start" /\ \A k \in 1..Len(data.decl.fields) :
                        Upper(data.decl.fields[k]) = data.decl.fields[k])
        => ValuesOfOwnLines

(***************************************************************************)
(* Properties of what PCDLoader.parse builds, on the files of Spec.        *)
(***************************************************************************)
\* A binary file whose payload holds every record its header announces.
WellFormedBinary ==
    /\ data.decl.mode = "binary"
    /\ Len(data.payload) = data.decl.points * 4 * Len(data.decl.fields)

ParseEnded == pc \in {"done", "threw"}

\* C17: for a well-formed binary file parse returns a container that holds
\* exactly two named point groups, the first named after the last path
\* segment of url with '_no_floor' appended, the second with '_floor'.
C17_TwoNamedGroups ==
    (WellFormedBinary /\ ParseEnded) =>
        /\ result = "group"
        /\ gr.defined
        /\ gr.children = << lastSegment(url) \o <<"_no_floor">>,
                            lastSegment(url) \o <<"_floor">> >>

\* No record carries color data: the header declares neither rgb nor
\* intensity, or it announces zero records.
NoColorData ==
    \/ ~Declares("rgb") /\ ~Declares("intensity")
    \/ data.decl.points = 0

\* The geometries and materials have been built (lines 296-334).
Built == pc = "threw" /\ thrown = "ReferenceError" /\ material1 # NoMaterial

\* C18: when no record carries color data both color arrays are empty,
\* neither geometry gets a color attribute and neither material has
\* vertexColors set, at every point of parse and after the build.
C18_NoColorNoVertexColors ==
    NoColorData =>
        /\ color1 = << >> /\ color2 = << >>
        /\ "color" \notin geometry1 /\ "color" \notin geometry2
        /\ ~material1.vertexColors /\ ~material2.vertexColors
        /\ Built => material1 = materialOf(<< >>) /\ material2 = materialOf(<< >>)

\* A binary file without color fields whose records have been decoded and
\* whose geometries and materials are built.
C18_Witness ==
    /\ NoColorData
    /\ data.decl.mode = "binary"
    /\ Built
    /\ i > 0
    /\ "position" \in geometry1 \cup geometry2

(***************************************************************************)
(* Properties of the message exchange of the worker revision.              *)
(***************************************************************************)
Count(seq, m) == Cardinality({k \in 1..Len(seq) : seq[k] = m})

\* C19: parse posts exactly one 'initialize' per call; it posts 'process'
\* only after onmessage has handled an 'initialized' reply whose header says
\* binary, and at most once; 'processed' is handled only after 'process' has
\* been posted; and nothing is posted once the worker is terminated.
C19_MessageProtocol ==
    /\ [](Count(posted, "initialize") = IF loader = "loaded" THEN 1 ELSE 0)
    /\ []("process" \in Range(posted) =>
             /\ posted = <<"initialize", "process">>
             /\ handled[1] = "initialized"
             /\ PCDheader.data = "binary")
    /\ []("processed" \in Range(handled) =>
             /\ handled = <<"initialized", "processed">>
             /\ "process" \in Range(posted))
    /\ [][myWorker = "terminated" => posted' = posted /\ toWorker' = toWorker]_vars

\* The whole exchange has taken place and the worker is terminated.
C19_Witness ==
    /\ myWorker = "terminated"
    /\ posted = <<"initialize", "process">>
    /\ handled = <<"initialized", "processed">>
    /\ PCDheader.data = "binary"

\* C20: whatever the encoding of the file and whether or not onmessage
\* fails, the promise parse returned gets settled and the interval gets
\* cleared, the worker answering every request.
C20_PromiseSettledIntervalCleared ==
    (promise.state = "pending") ~>
        (promise.state \in {"resolved", "rejected"} /\ interval = "cleared")

\* C21: under every interleaving of the interval callback with the replies
\* of the worker, when the promise is resolved the worker is already
\* terminated and the group it is resolved with is complete, with both point
\* sets as its children and its name set; and between two runs of handlers gr
\* never holds one child only, so the interval callback never sees such a group.
C21_ResolvedWithCompleteGroup ==
    /\ Len(gr.children) \in {0, 2}
    /\ promise.state = "resolved" =>
          /\ myWorker = "terminated"
          /\ Len(promise.value.children) = 2
          /\ promise.value.children[1] # promise.value.children[2]
          /\ promise.value.name = lastSegment(url)
          /\ promise.value = gr

\* The promise resolved by the first run of the interval callback after the
\* 'processed' reply, no earlier run having found gr empty.
C21_Witness ==
    /\ promise.state = "resolved"
    /\ myWorker = "terminated"
    /\ Len(promise.value.children) = 2
    /\ ticks = 0

(***************************************************************************)
(* The transform gizmos of src/src/extras/TransformGizmos.js, lines 1-365: *)
(* GizmoMaterial, TransformGizmo and its four kinds.  Colours are written  *)
(* as their six hexadecimal digits, opacities in tenths.                   *)
(***************************************************************************)
MaxEye == 1

\* lines 4-12
colors ==
    [colorName \in {"white", "red", "green", "blue", "yellow", "cyan", "magenta"} |->
        CASE colorName = "white" -> [enabled |-> "ffffff", disabled |-> "ffffff"]
          [] colorName = "red" -> [enabled |-> "e5432e", disabled |-> "646464"]
          [] colorName = "green" -> [enabled |-> "5bd72f", disabled |-> "b0b0b0"]
          [] colorName = "blue" -> [enabled |-> "3961d4", disabled |-> "606060"]
          [] colorName = "yellow" -> [enabled |-> "ffff00", disabled |-> "ececec"]
          [] colorName = "cyan" -> [enabled |-> "00ffff", disabled |-> "c8c8c8"]
          [] OTHER -> [enabled |-> "ff00ff", disabled |-> "484848"]]

\* lines 19-28: new GizmoMaterial({ opacity }); a MeshBasicMaterial is white.
GizmoMaterial(opacity) ==
    [color |-> "ffffff", opacity |-> opacity, enabledColor |-> "ffffff",
     disabledColor |-> "ffffff", oldOpacity |-> opacity]

\* lines 30-34
setColor(m, colorName) ==
    [m EXCEPT !.color = colors[colorName].enabled,
              !.enabledColor = colors[colorName].enabled,
              !.disabledColor = colors[colorName].disabled]

\* lines 36-44: GizmoMaterial.highlight
highlightMaterialWrong(m, highlighted) ==
    IF highlighted THEN [m EXCEPT !.color = "ffff00", !.opacity = 10] ELSE m

highlightMaterial(m, highlighted) ==
    IF highlighted THEN [m EXCEPT !.color = "ffff00", !.opacity = 10]
    ELSE [m EXCEPT !.color = m.enabledColor, !.opacity = m.oldOpacity]

\* lines 46-48: GizmoMaterial.setDisabled
setDisabledMaterial(m, disabled) ==
    [m EXCEPT !.color = IF disabled THEN m.disabledColor ELSE m.enabledColor]

\* line 51: the one material of every picker.
pickerMaterial == GizmoMaterial(10)

\* lines 131-139: setupGizmo of a handle with a material of its own.
setupGizmo(name, opacity, colorName) ==
    [name |-> name, material |-> setColor(GizmoMaterial(opacity), colorName)]

\* The handles initGizmos adds to handlesRoot, in order: lines 172-186,
\* 236-241, 276-285, 328-337.
initHandles(kind) ==
    LET axes == << setupGizmo("X", 10, "red"), setupGizmo("X", 10, "red"),
                   setupGizmo("Y", 10, "green"), setupGizmo("Y", 10, "green"),
                   setupGizmo("Z", 10, "blue"), setupGizmo("Z", 10, "blue") >>
    IN  CASE kind = "Translate" ->
                axes \o << setupGizmo("XY", 5, "yellow"), setupGizmo("YZ", 5, "cyan"),
                           setupGizmo("XZ", 5, "magenta"), setupGizmo("XYZ", 8, "white") >>
          [] kind = "Rotate" ->
                << setupGizmo("X", 10, "red"), setupGizmo("Y", 10, "green"),
                   setupGizmo("Z", 10, "blue"), setupGizmo("E", 8, "white") >>
          [] OTHER -> axes \o << setupGizmo("XYZ", 8, "white") >>

\* The names of the pickers initGizmos adds to pickersRoot, in order: lines
\* 189-197, 247-252, 288-292, 340-344.
initPickers(kind) ==
    CASE kind = "Translate" -> <<"X", "Y", "Z", "XY", "YZ", "XZ", "XYZ">>
      [] kind = "Rotate" -> <<"X", "Y", "Z", "E">>
      [] OTHER -> <<"X", "Y", "Z", "XYZ">>

\* lines 76-92: the planes of every gizmo.
planes == {"XY", "YZ", "XZ", "XYZE"}

\* lines 61-113: the gizmo after new TransformGizmoTranslate() and the like.
NewGizmo(kind) ==
    [kind |-> kind, activePlane |-> "XYZE", rotation |-> "I",
     handles |-> initHandles(kind), picker |-> pickerMaterial,
     call |-> [op |-> "new", axis |-> "none", eye |-> <<0, 0, 0>>, disabled |-> FALSE]]

Abs(n) == IF n < 0 THEN 0 - n ELSE n

\* World rotations of the plane XY: none, and a quarter turn about x.
Rotations == {"I", "Rx"}

\* lines 201-202: eye.applyMatrix4 of the inverse of the rotation of
\* planes["XY"].matrixWorld, which takes the eye vector to the axes of the gizmo.
applyInverse(rot, eye) ==
    IF rot = "Rx" THEN << eye[1], eye[3], 0 - eye[2] >> ELSE eye

\* lines 204-225: the plane TransformGizmoTranslate.setActivePlane leaves
\* active, plane being the one active before; eye is the transformed vector.
setActivePlaneTranslate(axis, eye, plane) ==
    CASE axis = "X" -> IF Abs(eye[2]) > Abs(eye[3]) THEN "XZ" ELSE "XY"
      [] axis = "Y" -> IF Abs(eye[1]) > Abs(eye[3]) THEN "YZ" ELSE "XY"
      [] axis = "Z" -> IF Abs(eye[1]) > Abs(eye[2]) THEN "YZ" ELSE "XZ"
      [] axis = "XYZ" -> "XYZE"
      [] axis \in {"XY", "YZ", "XZ"} -> axis
      [] OTHER -> plane

\* lines 255-260: TransformGizmoRotate.setActivePlane
setActivePlaneRotateWrong(axis, plane) ==
    IF axis = "X" THEN "YZ"
    ELSE IF axis = "Y" THEN "XZ"
    ELSE IF axis = "Z" THEN "XY"
    ELSE "XYZE"

setActivePlaneRotate(axis, plane) ==
    IF axis = "X" THEN "YZ"
    ELSE IF axis = "Y" THEN "XZ"
    ELSE IF axis = "Z" THEN "XY"
    ELSE IF axis = "E" THEN "XYZE"
    ELSE plane

\* lines 299-311: TransformGizmoScale.setActivePlane
setActivePlaneScale(axis, eye, plane) ==
    IF axis = "X" THEN (IF Abs(eye[2]) > Abs(eye[3]) THEN "XZ" ELSE "XY")
    ELSE IF axis = "Y" THEN (IF Abs(eye[1]) > Abs(eye[3]) THEN "YZ" ELSE "XY")
    ELSE IF axis = "Z" THEN (IF Abs(eye[1]) > Abs(eye[2]) THEN "YZ" ELSE "XZ")
    ELSE IF axis = "XYZ" THEN "XYZE"
    ELSE plane

\* lines 351-363: TransformGizmoResize.setActivePlane
setActivePlaneResizeWrong(axis, eye, plane) ==
    IF axis = "X" THEN (IF eye[2] > eye[3] THEN "XZ" ELSE "XY")
    ELSE IF axis = "Y" THEN (IF eye[1] > eye[3] THEN "YZ" ELSE "XY")
    ELSE IF axis = "Z" THEN (IF eye[1] > eye[2] THEN "YZ" ELSE "XZ")
    ELSE IF axis = "XYZ" THEN "XYZE"
    ELSE plane

setActivePlaneResize(axis, eye, plane) ==
    IF axis = "X" THEN (IF Abs(eye[2]) > Abs(eye[3]) THEN "XZ" ELSE "XY")
    ELSE IF axis = "Y" THEN (IF Abs(eye[1]) > Abs(eye[3]) THEN "YZ" ELSE "XY")
    ELSE IF axis = "Z" THEN (IF Abs(eye[1]) > Abs(eye[2]) THEN "YZ" ELSE "XZ")
    ELSE IF axis = "XYZ" THEN "XYZE"
    ELSE plane

\* The axis names and eye vectors the gizmos are called with.
Axes == {"X", "Y", "Z", "XYZ", "XY", "YZ", "XZ", "E"}

Eyes == {<<x, y, z>> : x \in (0 - MaxEye)..MaxEye, y \in (0 - MaxEye)..MaxEye,
                       z \in (0 - MaxEye)..MaxEye}

Kinds == {"Translate", "Rotate", "Scale", "Resize"}

\* The variables the gizmos leave alone.
loaderVars == <<data, pc, PCDheader, i, row, position1, normal1, color1,
                position2, normal2, color2, thrown, console, result,
                geometry1, geometry2, material1, material2, url, gr, wvars>>

\* lines 141-153: update gives the rotation to every child whose name holds X,
\* Y or Z, the plane XY among them; call records the last call made.
update ==
    \E rot \in Rotations :
        /\ gizmo.kind \in Kinds
        /\ gizmo' = [gizmo EXCEPT !.rotation = rot,
                                  !.call = [op |-> "update", axis |-> "none",
                                            eye |-> <<0, 0, 0>>, disabled |-> FALSE]]
        /\ UNCHANGED loaderVars

\* lines 200-226, 255-260, 295-312, 347-364: setActivePlane(axis, eye) of the
\* kind of the gizmo; call.eye is the eye vector after lines 201-202.  The
\* setActivePlane of the Rotate gizmo takes no eye vector.
setActivePlane ==
    \E axis \in Axes, eye \in Eyes :
        /\ gizmo.kind \in Kinds
        /\ gizmo.kind = "Rotate" => eye = <<0, 0, 0>>
        /\ LET local == IF gizmo.kind = "Rotate" THEN <<0, 0, 0>>
                        ELSE applyInverse(gizmo.rotation, eye)
               plane == gizmo.activePlane
           IN  gizmo' = [gizmo EXCEPT
                   !.activePlane =
                       CASE gizmo.kind = "Translate" -> setActivePlaneTranslate(axis, local, plane)
                         [] gizmo.kind = "Rotate" -> setActivePlaneRotate(axis, plane)
                         [] gizmo.kind = "Scale" -> setActivePlaneScale(axis, local, plane)
                         [] OTHER -> setActivePlaneResize(axis, local, plane),
                   !.call = [op |-> "setActivePlane", axis |-> axis,
                             eye |-> local, disabled |-> FALSE]]
        /\ UNCHANGED loaderVars

\* lines 115-121 over pickersRoot: every picker passes its own name to the one
\* material they share.
RECURSIVE highlightPickers(_, _, _)
highlightPickers(m, names, axis) ==
    IF names = << >> THEN m
    ELSE highlightPickers(highlightMaterial(m, Head(names) = axis), Tail(names), axis)

\* lines 115-121: TransformGizmo.highlight(axis); the planes have a
\* MeshBasicMaterial, which has no highlight.
highlight ==
    \E axis \in Axes \cup {"none"} :
        /\ gizmo.kind \in Kinds
        /\ gizmo' = [gizmo EXCEPT
               !.handles = [k \in DOMAIN gizmo.handles |->
                               [gizmo.handles[k] EXCEPT
                                   !.material = highlightMaterial(gizmo.handles[k].material,
                                                                  gizmo.handles[k].name = axis)]],
               !.picker = highlightPickers(gizmo.picker, initPickers(gizmo.kind), axis),
               !.call = [op |-> "highlight", axis |-> axis,
                         eye |-> <<0, 0, 0>>, disabled |-> FALSE]]
        /\ UNCHANGED loaderVars

\* lines 123-129: TransformGizmo.setDisabled(disabled)
setDisabled ==
    \E disabled \in BOOLEAN :
        /\ gizmo.kind \in Kinds
        /\ gizmo' = [gizmo EXCEPT
               !.handles = [k \in DOMAIN gizmo.handles |->
                               [gizmo.handles[k] EXCEPT
                                   !.material = setDisabledMaterial(gizmo.handles[k].material,
                                                                    disabled)]],
               !.picker = setDisabledMaterial(gizmo.picker, disabled),
               !.call = [op |-> "setDisabled", axis |-> "none",
                         eye |-> <<0, 0, 0>>, disabled |-> disabled]]
        /\ UNCHANGED loaderVars

\* No file has been given to the loader.
NoFile == [decl |-> << >>, text |-> << >>, payload |-> << >>, body |-> << >>]

\* A gizmo of any kind right after its constructor, the loader idle.
InitGizmo ==
    /\ url = << >>
    /\ InitParse(NoFile)
    /\ \E kind \in Kinds : gizmo = NewGizmo(kind)

NextGizmoPlane == update \/ setActivePlane

SpecGizmoPlane == InitGizmo /\ [][NextGizmoPlane]_vars

NextGizmoMaterial == highlight \/ setDisabled \/ update

SpecGizmoMaterial == InitGizmo /\ [][NextGizmoMaterial]_vars

\* The axis names the setActivePlane of a kind has a case for: lines 205-224,
\* 256-259, 299-311, 351-363.
Recognised(kind) ==
    CASE kind = "Translate" -> {"X", "Y", "Z", "XYZ", "XY", "YZ", "XZ"}
      [] kind = "Rotate" -> {"X", "Y", "Z", "E"}
      [] OTHER -> {"X", "Y", "Z", "XYZ"}

\* C22: for a gizmo of any kind, after any sequence of setActivePlane calls
\* the active plane is one of the four planes XY, YZ, XZ, XYZE of the gizmo; it
\* is XYZE right after construction; and a call with an axis name the kind has
\* no case for leaves the active plane as it was.
C22_ActivePlaneIsOwnPlane ==
    /\ [](gizmo.kind \in Kinds =>
            /\ gizmo.activePlane \in planes
            /\ gizmo.call.op = "new" => gizmo.activePlane = "XYZE")
    /\ [][(/\ gizmo'.call.op = "setActivePlane"
           /\ gizmo'.call.axis \notin Recognised(gizmo.kind))
          => gizmo'.activePlane = gizmo.activePlane]_vars

\* A Rotate gizmo was called with XYZ, which it has no case for, and kept the
\* plane YZ an earlier call with X had made active.
C22_Witness ==
    /\ gizmo.kind = "Rotate"
    /\ gizmo.call.op = "setActivePlane"
    /\ gizmo.call.axis = "XYZ"
    /\ gizmo.activePlane = "YZ"

\* C23: for the axes X, Y, Z and XYZ the Translate, Scale and Resize gizmos
\* select the same plane from the same gizmo-local eye vector: X gives XZ when
\* |eye.y| > |eye.z| and XY otherwise, Y gives YZ when |eye.x| > |eye.z| and XY
\* otherwise, Z gives YZ when |eye.x| > |eye.y| and XZ otherwise, XYZ gives
\* XYZE; the plane of a single axis holds the letter of the axis.
C23_SamePlaneForSameEye ==
    (/\ gizmo.kind \in {"Translate", "Scale", "Resize"}
     /\ gizmo.call.op = "setActivePlane"
     /\ gizmo.call.axis \in {"X", "Y", "Z", "XYZ"})
    => LET axis == gizmo.call.axis
           eye == gizmo.call.eye
           x == Abs(eye[1])
           y == Abs(eye[2])
           z == Abs(eye[3])
       IN  /\ axis = "X" => gizmo.activePlane = (IF y > z THEN "XZ" ELSE "XY")
           /\ axis = "Y" => gizmo.activePlane = (IF x > z THEN "YZ" ELSE "XY")
           /\ axis = "Z" => gizmo.activePlane = (IF x > y THEN "YZ" ELSE "XZ")
           /\ axis = "XYZ" => gizmo.activePlane = "XYZE"
           /\ axis = "X" => gizmo.activePlane \in {"XY", "XZ"}
           /\ axis = "Y" => gizmo.activePlane \in {"XY", "YZ"}
           /\ axis = "Z" => gizmo.activePlane \in {"YZ", "XZ"}
           /\ \A plane \in planes :
                 /\ setActivePlaneTranslate(axis, eye, plane) = setActivePlaneScale(axis, eye, plane)
                 /\ setActivePlaneScale(axis, eye, plane) = setActivePlaneResize(axis, eye, plane)

\* A Resize gizmo turned a quarter about x was called with X and an eye vector
\* whose local y is negative and larger in size than its z, and chose XZ.
C23_Witness ==
    /\ gizmo.kind = "Resize"
    /\ gizmo.rotation = "Rx"
    /\ gizmo.call.op = "setActivePlane"
    /\ gizmo.call.axis = "X"
    /\ gizmo.call.eye[2] < 0
    /\ gizmo.call.eye[3] = 0
    /\ gizmo.activePlane = "XZ"

\* The material is in the highlighted state: yellow with opacity 1.
Highlighted(m) == m.color = "ffff00" /\ m.opacity = 10

\* C24: after highlight(axis), whatever highlight and setDisabled calls came
\* before, the material of a handle is highlighted exactly when the name of the
\* handle is axis, and every other handle has the enabled colour and the
\* opacity it was constructed with; at no time are handles of two different
\* names highlighted.
C24_OnlyNamedAxisHighlighted ==
    gizmo.kind \in Kinds =>
        /\ Cardinality({gizmo.handles[k].name :
                           k \in {n \in DOMAIN gizmo.handles :
                                     Highlighted(gizmo.handles[n].material)}}) <= 1
        /\ gizmo.call.op = "highlight" =>
              \A k \in DOMAIN gizmo.handles :
                  LET h == gizmo.handles[k]
                      made == initHandles(gizmo.kind)[k]
                  IN  /\ Highlighted(h.material) <=> h.name = gizmo.call.axis
                      /\ h.name # gizmo.call.axis =>
                            /\ h.material.color = made.material.enabledColor
                            /\ h.material.opacity = made.material.opacity

\* highlight("X") on a Translate gizmo: both X handles are highlighted, and the
\* XY handle, yellow by construction, keeps its opacity of one half.
C24_Witness ==
    /\ gizmo.kind = "Translate"
    /\ gizmo.call.op = "highlight"
    /\ gizmo.call.axis = "X"
    /\ Highlighted(gizmo.handles[1].material)
    /\ Highlighted(gizmo.handles[2].material)
    /\ gizmo.handles[7].material.color = "ffff00"
    /\ gizmo.handles[7].material.opacity = 5

(***************************************************************************)
(* The colour arrays of the binary loop, PCDLoader.js lines 239-277.       *)
(***************************************************************************)
\* C25: after the record loop of a binary file that declares x, y, z and
\* rgb, intensity or both, the color array of each group is as long as the
\* position array of the group: one colour triple for each point.
C25_ColorTriplePerPoint ==
    (/\ WellFormedBinary
     /\ DeclaresXYZ
     /\ Declares("rgb") \/ Declares("intensity")
     /\ LoopOver)
    => /\ Len(color1) = Len(position1)
       /\ Len(color2) = Len(position2)

====
